---- MODULE Spec2Model ----
(***************************************************************************)
(* State-machine model of the vase scene's destroy / shatter lifecycle and *)
(* the interaction gating around it: the App component (destroy effect,    *)
(* handleTriggerDestroy, onShatterComplete, drag / camera handlers), the   *)
(* VaseModel shatter effects and the CameraResetAnimator.                  *)
(*                                                                         *)
(* One action is one browser event (a user gesture, a timer, a frame, an   *)
(* asset load) together with the React render and the effects it causes,   *)
(* run to quiescence: React flushes the renders and passive effects of a   *)
(* discrete event before the next event is delivered.  The sensor window   *)
(* of the colliders is not modelled.  Of the storage layer the model has   *)
(* the keys of the texture store and the counters of the vase store; a     *)
(* save of a counter lands with its handler except in SpecPersist, which   *)
(* follows the saves in flight.                                            *)
(* Camera positions and targets are taken along one axis, in thousandths   *)
(* of a scene unit.                                                        *)
(***************************************************************************)
EXTENDS Integers, FiniteSets, Sequences, TLC

\* ------------------------------------------------------------------ bounds
NumVases == 2          \* vases modelled (the grid has VASE_COUNT of them)
NumShards == 2         \* fragments per vase
MaxEventId == 2        \* cap on destroyEventId (accepted destroy triggers)
MaxFrames == 1         \* cap on shard frames integrated per sequence
FrameCs == 12          \* frame delta, in centiseconds
MaxJitter == 1         \* rng(0, randJitter) drawn from 0..MaxJitter
MaxCoins == 1          \* cap on coins spawned per vase
CamFrameCs == 120      \* camera frame delta, in centiseconds
SmallTickCs == 25      \* a shorter camera frame delta, in centiseconds
NearMilli == 40        \* a camera coordinate close to the origin
FarMilli == 3000       \* a camera coordinate far from the origin
MaxRoundErr == 1
MaxSaves == 2                   \* vase store writes in flight       \* largest rounding error of an interpolated value

\* -------------------------------------------------------- program constants
None == -1                      \* null (destroyingIndex, refs, timers)
BaseStrength == 10              \* baseStrength
UpBiasPct == 55                 \* upBias, in hundredths
EffBias == 10                   \* distBias ?? 10
EffScalePct == 15               \* distScale ?? 0.15, in hundredths
EffClampPct == 50               \* distClamp ?? 0.5, in hundredths
GravityDelayCs == 10            \* gravityDelay, in centiseconds
BlastNoDampCs == 8              \* blastNoDampFor, in centiseconds
GravityMilli == 3800            \* g, in thousandths
LinDampMilli == 985             \* linDamp, in thousandths
FocusDurationCs == 70           \* focusVase task duration
ResetDurationCs == 90           \* startCameraReset task duration
TitleDurationCs == 120          \* title transition task duration
VaseColumnsCount == 3           \* VASE_COLUMNS_COUNT
VaseSpacingMilli == 25000       \* VASE_SPACING
DefaultOffsetMilli == 31225     \* INITIAL_CAMERA_Z: camera minus target
TitleTargetMilli == -100000     \* TITLE_TARGET
TitleCameraMilli == -92000      \* TITLE_CAMERA_POS
PosEpsMilli == 50               \* square root of posEpsSq
TargetEpsMilli == 25            \* square root of targetEpsSq
FocusMinProgressPct == 50       \* minProgressForEarlyEnd of focusVase
ResetMinProgressPct == 55       \* minProgressForEarlyEnd of the other tasks

Vases == 0 .. (NumVases - 1)
Shards == 1 .. NumShards
Jitters == 0 .. MaxJitter

VARIABLES
  appMode,                \* 'title' | 'vases'
  isConnecting,           \* Connect pressed, transition not finished
  connectTimer,           \* connectTimerRef timeout pending
  onResetDoneOnceRef,     \* one-shot callback installed for the transition
  activeVaseIndex,
  isResetting,
  draggingMode,           \* "none" | "vase" | "camera"
  resetRef,               \* camera task [kind, elapsed, fromPos, toPos,
                          \*   fromTarget, toTarget]; kind "none" = null
  cameraPosition,         \* camera.position
  controlsTarget,         \* controlsRef.current.target
  onDoneSawFinal,         \* the last onDone call saw the snapped camera,
                          \*   updated controls and an empty task cell
  isLocked,
  destroyingIndex,        \* None or the vase being destroyed
  destroyEventId,
  destroyingVasesRef,     \* in-flight set
  vases,                  \* per vase: [destroyCount, coinAmount]
  coinsByVase,            \* per vase: number of coin bodies
  shardsLoaded,           \* GLB assets resolved, VaseModels mounted
  lastProcessedTriggerRef,\* per vase
  shatterTimeoutRef,      \* per vase: handle of the completion timer or None
  shardsActiveRef,        \* per vase
  shardsElapsedRef,       \* per vase, in centiseconds
  shardPos,               \* per vase, per shard: position (one axis)
  shardsVelRef,           \* per vase: velocity of each shard; <<>> if empty
  timers,                 \* pending completion timeouts: [vase, trigger,
                          \*   seen = destroyingIndex closed over]
  completions,            \* per vase: effective onShatterComplete runs
  freshStarts,            \* per vase: accepted fresh destroys
  runStartCount,          \* per vase: destroyCount before the fresh trigger
  runRetriggers,          \* per vase: re-triggers in the current run
  textureKeys,            \* keys present in textureStore
  skyboxUrl,              \* the skyboxUrl state holds a data URL
  didCleanupTexturesRef,
  cleanupTimer,           \* the timeout of the texture cleanup effect is
                          \*   pending
  cleanupRun,             \* <<>> or <<toRemove>> of a cleanup under way
  vaseStore,              \* vaseStore item 'all': the counters per vase
  saves,                  \* saveVases calls in flight, oldest first:
                          \*   [snap, writeBack = setVases(snap) follows]
  lastOp                  \* kind of the last step: a destroy click, a
                          \*   completion timeout, a re-render, another
                          \*   user gesture, or any other event

appVars == <<appMode, isConnecting, connectTimer, onResetDoneOnceRef>>
sceneVars == <<cameraPosition, controlsTarget, onDoneSawFinal>>
camVars == <<activeVaseIndex, isResetting, draggingMode, resetRef, sceneVars>>
lockVars == <<isLocked, destroyingIndex, destroyEventId, destroyingVasesRef>>
statVars == <<vases, coinsByVase>>
modelVars == <<lastProcessedTriggerRef, shatterTimeoutRef, shardsActiveRef,
               shardsElapsedRef, shardPos, shardsVelRef, timers>>
ghostVars == <<completions, freshStarts, runStartCount, runRetriggers>>
texVars == <<textureKeys, skyboxUrl, didCleanupTexturesRef, cleanupTimer,
             cleanupRun>>
persistVars == <<vaseStore, saves>>
storeVars == <<texVars, persistVars>>
vars == <<appVars, camVars, lockVars, statVars, shardsLoaded,
          modelVars, ghostVars, storeVars, lastOp>>

Op(name, arg) == [op |-> name, arg |-> arg]

\* ---------------------------------------------------------------- VaseModel
\* Fixed point: positions in 1e-4 units, velocities in 1e-2 units/s.
\* Rest pose of shard f: the local position captured into shardsInitialRef
\* (shard f rests f units along the axis).
RestPose(f) == f * 10000

Min(a, b) == IF a < b THEN a ELSE b
Max(a, b) == IF a > b THEN a ELSE b
Abs(a) == IF a < 0 THEN 0 - a ELSE a

\* Blast centre: centre of the bounding box of the shards (doubled, in units).
CenterTwice == 1 + NumShards

\* Distance of shard f from the blast centre, in hundredths of a unit.
DistPct(f) == Abs(2 * f - CenterTwice) * 50

\* The boost without the Math.min against effClamp.
DistBoostPctUnclamped(dist) ==
  100 + Max(((dist + EffBias * 100) * EffScalePct) \div 100, 0)

\* distBoost = 1 + clamp(max((dist + effBias) * effScale, 0), effClamp),
\* in hundredths.
DistBoostPct(dist) ==
  100 + Min(Max(((dist + EffBias * 100) * EffScalePct) \div 100, 0), EffClampPct)

\* strength = (baseStrength + rng(0, randJitter)) * distBoost, in hundredths.
Strength(f, jit) == (BaseStrength + jit) * DistBoostPct(DistPct(f))

\* Linear velocity of shard f along the vertical axis at sequence start:
\* dir * strength, plus strength * upBias.
Impulse(f, jit) ==
  LET dir == IF 2 * f >= CenterTwice THEN 1 ELSE -1
      s == Strength(f, jit)
  IN dir * s + (s * UpBiasPct) \div 100

\* A start that leaves the shard where the previous sequence moved it.
PoseAfterStartKept(p, f) == p

\* Position of shard f once the start has copied the captured transform
\* back; p is where the shard was.
PoseAfterStart(p, f) == RestPose(f)

\* The init effect without its lastProcessedTriggerRef guard.
StartSequenceAlways(shattered, loaded, last, trig) == shattered /\ loaded

\* Guard of the shatter init effect: runs the start only for a shattered,
\* loaded vase whose last processed trigger differs from the incoming one.
StartSequenceNeeded(shattered, loaded, last, trig) ==
  shattered /\ loaded /\ last # trig

\* A start that schedules the new timer without clearing the one held.
TimersAfterStartKeep(ts, i, held, trig) ==
  ts \cup {[vase |-> i, trigger |-> trig, seen |-> i]}

\* Pending completion timers after vase i starts a sequence for trigger trig:
\* the timer held in shatterTimeoutRef is cleared, then a new one is set.
TimersAfterStart(ts, i, held, trig) ==
  {t \in ts : ~(t.vase = i /\ t.trigger = held)}
    \cup {[vase |-> i, trigger |-> trig, seen |-> i]}

\* Pending completion timers after the teardown effect of vase i.
TimersAfterTeardown(ts, i, held) ==
  {t \in ts : ~(t.vase = i /\ t.trigger = held)}

\* What the VaseModel effects of vase i do in a commit whose props are
\* shattered = (dIdx = i) and shatterTriggerId = evId.
VaseStep(i, dIdx, evId, loaded) ==
  IF ~loaded THEN "unmounted"
  ELSE IF StartSequenceNeeded(dIdx = i, loaded, lastProcessedTriggerRef[i], evId)
       THEN "start"
  ELSE IF dIdx = i THEN "keep"
  ELSE "teardown"

\* The VaseModel effects of every vase for one commit; jits gives the rng
\* draws of each vase's shards, ts the pending timers and act the
\* shardsActiveRef values the commit starts from.
VaseEffects(dIdx, evId, loaded, jits, ts, act) ==
  LET step(i) == VaseStep(i, dIdx, evId, loaded)
      afterOne(tt, i) ==
        IF step(i) = "start"
          THEN TimersAfterStart(tt, i, shatterTimeoutRef[i], evId)
        ELSE IF step(i) = "teardown"
          THEN TimersAfterTeardown(tt, i, shatterTimeoutRef[i])
        ELSE tt
      RECURSIVE fold(_, _)
      fold(tt, n) == IF n = NumVases THEN tt ELSE fold(afterOne(tt, n), n + 1)
  IN
  /\ lastProcessedTriggerRef' =
       [i \in Vases |-> IF step(i) = "start" THEN evId
                        ELSE lastProcessedTriggerRef[i]]
  /\ shatterTimeoutRef' =
       [i \in Vases |-> IF step(i) = "start" THEN evId
                        ELSE IF step(i) = "teardown" THEN None
                        ELSE shatterTimeoutRef[i]]
  /\ shardsActiveRef' =
       [i \in Vases |-> IF step(i) = "start" THEN TRUE
                        ELSE IF step(i) = "teardown" THEN FALSE
                        ELSE act[i]]
  /\ shardsElapsedRef' =
       [i \in Vases |-> IF step(i) \in {"start", "teardown"} THEN 0
                        ELSE shardsElapsedRef[i]]
  /\ shardPos' =
       [i \in Vases |-> IF step(i) = "start"
                        THEN [f \in Shards |-> PoseAfterStart(shardPos[i][f], f)]
                        ELSE shardPos[i]]
  /\ shardsVelRef' =
       [i \in Vases |-> IF step(i) = "start"
                        THEN [f \in Shards |-> Impulse(f, jits[i][f])]
                        ELSE shardsVelRef[i]]
  /\ timers' = fold(ts, 0)

NoJits == [i \in Vases |-> [f \in Shards |-> 0]]

\* The rng draws that matter in a commit: one draw per shard of the vase that
\* starts a sequence (only the shattered vase can), zero for the others.
RelevantJits(dIdx, evId, loaded) ==
  IF \E i \in Vases : VaseStep(i, dIdx, evId, loaded) = "start"
    THEN {[i \in Vases |->
             IF VaseStep(i, dIdx, evId, loaded) = "start" THEN j ELSE NoJits[i]] :
           j \in [Shards -> Jitters]}
    ELSE {NoJits}

\* ---------------------------------------------------------------------- App
NoTask == [kind |-> "none", elapsed |-> 0, fromPos |-> 0, toPos |-> 0,
           fromTarget |-> 0, toTarget |-> 0]
Task(kind, fromPos, toPos, fromTarget, toTarget) ==
  [kind |-> kind, elapsed |-> 0, fromPos |-> fromPos, toPos |-> toPos,
   fromTarget |-> fromTarget, toTarget |-> toTarget]

\* getVaseTarget(idx), along the axis of the columns.
GetVaseTarget(idx) == (idx % VaseColumnsCount) * VaseSpacingMilli

Duration(kind) ==
  IF kind = "focus" THEN FocusDurationCs
  ELSE IF kind = "reset" THEN ResetDurationCs
  ELSE TitleDurationCs

Wrapped(index) == ((index % NumVases) + NumVases) % NumVases

\* Nothing is being destroyed and no vase has shattered yet.
InitVases ==
  /\ isLocked = FALSE
  /\ destroyingIndex = None
  /\ destroyEventId = 0
  /\ destroyingVasesRef = {}
  /\ vases = [i \in Vases |-> [destroyCount |-> 0, coinAmount |-> 0]]
  /\ coinsByVase = [i \in Vases |-> 0]
  /\ shardsLoaded = FALSE
  /\ lastProcessedTriggerRef = [i \in Vases |-> None]
  /\ shatterTimeoutRef = [i \in Vases |-> None]
  /\ shardsActiveRef = [i \in Vases |-> FALSE]
  /\ shardsElapsedRef = [i \in Vases |-> 0]
  /\ shardPos = [i \in Vases |-> [f \in Shards |-> RestPose(f)]]
  /\ shardsVelRef = [i \in Vases |-> <<>>]
  /\ timers = {}
  /\ completions = [i \in Vases |-> 0]
  /\ freshStarts = [i \in Vases |-> 0]
  /\ runStartCount = [i \in Vases |-> 0]
  /\ runRetriggers = [i \in Vases |-> 0]
  /\ textureKeys = {}
  /\ skyboxUrl = FALSE
  /\ didCleanupTexturesRef = FALSE
  /\ cleanupTimer = TRUE
  /\ cleanupRun = <<>>
  /\ vaseStore = [i \in Vases |-> [destroyCount |-> 0, coinAmount |-> 0]]
  /\ saves = <<>>
  /\ lastOp = Op("init", None)

Init ==
  /\ appMode = "title"
  /\ isConnecting = FALSE
  /\ connectTimer = FALSE
  /\ onResetDoneOnceRef = FALSE
  /\ activeVaseIndex = 0
  /\ isResetting = FALSE
  /\ draggingMode = "none"
  /\ resetRef = NoTask
  /\ cameraPosition = TitleCameraMilli
  /\ controlsTarget = TitleTargetMilli
  /\ onDoneSawFinal = TRUE
  /\ InitVases

\* The destroy button keeps working while locked (allowDestroyWhileLocked).
AllowDestroyWhileLocked == TRUE

\* The NavigationBar is rendered only in vases mode.
NavRendered == appMode = "vases"

\* disabled attribute of the destroy button.
DestroyDisabled(locked, resetting) ==
  (locked /\ ~AllowDestroyWhileLocked) \/ resetting

\* disabled attribute of the other navigation bar buttons.
NavDisabled(locked, resetting) == locked \/ resetting

\* handleTriggerDestroy without the early return for another target.
AcceptsDestroyAnyTarget(mode, resetting, locked, dIdx, aIdx) ==
  mode = "vases" /\ ~resetting

\* handleTriggerDestroy goes on past its two early returns.
AcceptsDestroy(mode, resetting, locked, dIdx, aIdx) ==
  /\ mode = "vases" /\ ~resetting
  /\ ~(locked /\ dIdx # aIdx)

\* The destroy effect body without the destroyingVasesRef guard.
DestroyEffectKindNoGuard(dIdx, idx, inflight) ==
  IF dIdx # None
    THEN (IF dIdx = idx THEN "retrigger" ELSE "reject")
  ELSE "fresh"

\* Branch taken by one run of the destroy effect body.
DestroyEffectKind(dIdx, idx, inflight) ==
  IF dIdx # None
    THEN (IF dIdx = idx THEN "retrigger" ELSE "reject")
  ELSE IF idx \in inflight THEN "reject"
  ELSE "fresh"

\* A re-trigger branch that does not bump the trigger id.
BumpFreshOnly(k) == IF k = "fresh" THEN 1 ELSE 0

\* setDestroyEventId(id => id + 1) is queued by the re-trigger branch and by
\* the fresh branch, not by a rejected run.
Bump(k) == IF k = "reject" THEN 0 ELSE 1

\* A fresh branch that leaves out setIsLocked(true).
LockAfterDestroyUnset(locked, fresh) == locked

\* isLocked after the destroy effect: setIsLocked(true) on the fresh branch.
LockAfterDestroy(locked, fresh) == locked \/ fresh

\* The destroy effect body, run n times against the same render snapshot
\* (n = 2 is a double invocation of the effect by the framework).
\* Returns what the queued updates and ref writes add up to.
DestroyEffect(dIdx, idx, inflight, n) ==
  LET k1 == DestroyEffectKind(dIdx, idx, inflight)
      in1 == IF k1 = "fresh" THEN inflight \cup {idx} ELSE inflight
      k2 == IF n = 2 THEN DestroyEffectKind(dIdx, idx, in1) ELSE "reject"
      in2 == IF k2 = "fresh" THEN in1 \cup {idx} ELSE in1
  IN [kind |-> k1,
      fresh |-> k1 = "fresh" \/ k2 = "fresh",
      started |-> k1 # "reject" \/ k2 # "reject",
      inflight |-> in2,
      bumps |-> Bump(k1) + Bump(k2)]

\* onShatterComplete without its destroyingIndex comparison.
CompletionAppliesAlways(i, seen) == TRUE

\* onShatterComplete of vase i mutates state only if i is the destroyingIndex
\* its closure has seen.
CompletionApplies(i, seen) == i = seen

\* The background save of a counter handler: updateVaseAt(next, idx, ...)
\* writes the array the setVases updater computed and writes nothing back.
\* queued: the write is left in flight; otherwise it lands with the handler.
SaveCounters(next, queued) ==
  IF queued
    THEN /\ saves' = Append(saves, [snap |-> next, writeBack |-> FALSE])
         /\ UNCHANGED vaseStore
    ELSE /\ vaseStore' = next
         /\ UNCHANGED saves

\* The destroy gesture: a click on the destroy button, handleTriggerDestroy
\* with its background save, the destroy effect (run n times) and the
\* VaseModel effects that follow.
HandleTriggerDestroy(n, delivered, queued) ==
  LET idx == activeVaseIndex
      accepted == delivered /\ AcceptsDestroy(appMode, isResetting, isLocked,
                                              destroyingIndex, idx)
      eff == DestroyEffect(destroyingIndex, idx, destroyingVasesRef, n)
  IN
  /\ accepted => destroyEventId + n <= MaxEventId
  /\ (accepted /\ queued) => Len(saves) < MaxSaves
  /\ lastOp' = Op(IF ~accepted THEN "destroyRejected"
                  ELSE IF n = 2 THEN "destroyTwice" ELSE "destroy", idx)
  /\ IF ~accepted
       THEN UNCHANGED <<lockVars, statVars, modelVars, ghostVars, persistVars>>
       ELSE
         /\ vases' = [vases EXCEPT ![idx].destroyCount = @ + 1]
         /\ SaveCounters(vases', queued)
         /\ UNCHANGED coinsByVase
         /\ destroyingVasesRef' = eff.inflight
         /\ isLocked' = LockAfterDestroy(isLocked, eff.fresh)
         /\ destroyingIndex' = IF eff.fresh THEN idx ELSE destroyingIndex
         /\ destroyEventId' = destroyEventId + eff.bumps
         /\ \E jits \in RelevantJits(destroyingIndex', destroyEventId', shardsLoaded) :
              VaseEffects(destroyingIndex', destroyEventId', shardsLoaded, jits,
                          timers, shardsActiveRef)
         /\ freshStarts' =
              IF eff.fresh THEN [freshStarts EXCEPT ![idx] = @ + 1] ELSE freshStarts
         /\ runStartCount' =
              IF eff.fresh THEN [runStartCount EXCEPT ![idx] = vases[idx].destroyCount]
              ELSE runStartCount
         /\ runRetriggers' =
              IF eff.fresh THEN [runRetriggers EXCEPT ![idx] = 0]
              ELSE IF eff.kind = "retrigger"
                THEN [runRetriggers EXCEPT ![idx] = @ + 1]
              ELSE runRetriggers
         /\ UNCHANGED completions
  /\ UNCHANGED <<appVars, camVars, shardsLoaded, texVars>>

Destroy(n, delivered) == HandleTriggerDestroy(n, delivered, FALSE)

PressDestroy ==
  Destroy(1, NavRendered /\ ~DestroyDisabled(isLocked, isResetting))

\* The completion timeout of a sequence fires: shardsActiveRef is cleared and
\* onShatterComplete runs, followed by the render it causes.
ShatterTimeoutFires(t) ==
  LET i == t.vase
      applies == CompletionApplies(i, t.seen)
  IN
  /\ t \in timers
  /\ lastOp' = Op("shatterTimeout", i)
  /\ destroyingIndex' = IF applies THEN None ELSE destroyingIndex
  /\ isLocked' = IF applies THEN FALSE ELSE isLocked
  /\ coinsByVase' = IF applies THEN [coinsByVase EXCEPT ![i] = 0] ELSE coinsByVase
  /\ destroyingVasesRef' =
       IF applies THEN destroyingVasesRef \ {i} ELSE destroyingVasesRef
  /\ completions' = IF applies THEN [completions EXCEPT ![i] = @ + 1] ELSE completions
  /\ VaseEffects(destroyingIndex', destroyEventId, shardsLoaded, NoJits,
                 timers \ {t}, [shardsActiveRef EXCEPT ![i] = FALSE])
  /\ UNCHANGED <<destroyEventId, vases, appVars, camVars, shardsLoaded,
                 freshStarts, runStartCount, runRetriggers, storeVars>>

\* The shard assets resolve: the Suspense boundary mounts every VaseModel and
\* its effects run for the first time.
AssetsLoad ==
  /\ ~shardsLoaded
  /\ shardsLoaded' = TRUE
  /\ lastOp' = Op("other", None)
  /\ \E jits \in RelevantJits(destroyingIndex, destroyEventId, TRUE) :
       VaseEffects(destroyingIndex, destroyEventId, TRUE, jits, timers, shardsActiveRef)
  /\ UNCHANGED <<appVars, camVars, lockVars, statVars, ghostVars, storeVars>>

\* App re-renders for an unrelated reason (a fresh onShatterComplete closure
\* is passed down), so the shatter init effect of every vase is re-invoked
\* with unchanged shattered / shatterTriggerId props.
Rerender ==
  /\ shardsLoaded
  /\ lastOp' = Op("rerender", None)
  /\ \E jits \in RelevantJits(destroyingIndex, destroyEventId, shardsLoaded) :
       VaseEffects(destroyingIndex, destroyEventId, shardsLoaded, jits,
                   timers, shardsActiveRef)
  /\ UNCHANGED <<appVars, camVars, lockVars, statVars, ghostVars,
                 shardsLoaded, storeVars>>

\* One shard of a shattered vase after one frame of delta FrameCs, given the
\* elapsed time after the frame's increment: [p, v].
IntegrateShard(p, v, elapsed) ==
  LET applyGravity == elapsed > GravityDelayCs
      applyDamping == elapsed > BlastNoDampCs
      v1 == IF applyGravity THEN v - (GravityMilli * FrameCs) \div 1000 ELSE v
      p1 == p + v1 * FrameCs
      v2 == IF applyDamping THEN (v1 * LinDampMilli) \div 1000 ELSE v1
  IN [p |-> p1, v |-> v2]

\* useFrame of VaseModel i while shattered: integrates every shard that has a
\* velocity record.
ShardFrame(i) ==
  /\ shardsLoaded /\ destroyingIndex = i /\ shardsActiveRef[i]
  /\ shardsElapsedRef[i] < MaxFrames * FrameCs
  /\ lastOp' = Op("other", None)
  /\ shardsElapsedRef' = [shardsElapsedRef EXCEPT ![i] = @ + FrameCs]
  /\ LET nxt(f) == IntegrateShard(shardPos[i][f], shardsVelRef[i][f],
                                  shardsElapsedRef'[i])
         moving == DOMAIN shardsVelRef[i]
     IN
     /\ shardPos' = [shardPos EXCEPT ![i] =
                       [f \in Shards |-> IF f \in moving THEN nxt(f).p ELSE @[f]]]
     /\ shardsVelRef' = [shardsVelRef EXCEPT ![i] = [f \in moving |-> nxt(f).v]]
  /\ UNCHANGED <<lastProcessedTriggerRef, shatterTimeoutRef, shardsActiveRef, timers>>
  /\ UNCHANGED <<appVars, camVars, lockVars, statVars, ghostVars,
                 shardsLoaded, storeVars>>

\* ------------------------------------------------------- camera and gestures
\* A focusVase that carries the elapsed time of the task it replaces over
\* into the new one.
FocusVaseKeepsElapsed(index) ==
  LET wrapped == Wrapped(index)
      newTarget == GetVaseTarget(wrapped)
      offset == cameraPosition - controlsTarget
  IN IF wrapped = activeVaseIndex
       THEN UNCHANGED camVars
       ELSE /\ resetRef' = [Task("focus", cameraPosition, newTarget + offset,
                                 controlsTarget, newTarget)
                              EXCEPT !.elapsed = resetRef.elapsed]
            /\ activeVaseIndex' = wrapped
            /\ isResetting' = TRUE
            /\ draggingMode' = "none"
            /\ UNCHANGED sceneVars

\* focusVase(index): camera state after the call, as [task, active, resetting,
\* dragging].
FocusVase(index) ==
  LET wrapped == Wrapped(index)
      newTarget == GetVaseTarget(wrapped)
      offset == cameraPosition - controlsTarget
  IN IF wrapped = activeVaseIndex
       THEN UNCHANGED camVars
       ELSE /\ resetRef' = Task("focus", cameraPosition, newTarget + offset,
                                controlsTarget, newTarget)
            /\ activeVaseIndex' = wrapped
            /\ isResetting' = TRUE
            /\ draggingMode' = "none"
            /\ UNCHANGED sceneVars

\* startCameraReset()
\* defaultTarget is the target of the active vase and defaultDir points from
\* it towards the camera; the current distance is kept.
StartCameraReset ==
  LET dist == Abs(cameraPosition - controlsTarget)
      defaultTarget == GetVaseTarget(activeVaseIndex)
  IN
  /\ resetRef' = Task("reset", cameraPosition, defaultTarget + dist,
                      controlsTarget, defaultTarget)
  /\ isResetting' = TRUE
  /\ UNCHANGED <<activeVaseIndex, draggingMode, sceneVars>>

restVars == <<lockVars, statVars, modelVars, ghostVars, shardsLoaded,
             storeVars>>

\* A press on the previous / next button: pointerdown runs startHoldNav, whose
\* immediate step moves the focus; the button is disabled by the time the
\* click would be delivered.
PressNav(dir) ==
  /\ lastOp' = Op("navigate", None)
  /\ IF NavRendered /\ ~NavDisabled(isLocked, isResetting)
        /\ ~(isLocked \/ isResetting \/ appMode # "vases")
       THEN FocusVase(activeVaseIndex + dir)
       ELSE UNCHANGED camVars
  /\ UNCHANGED <<appVars, restVars>>

\* The keydown listener without the capture-phase guard in front of it.
KeyArrowNoCapture(dir) ==
  /\ lastOp' = Op("navigate", None)
  /\ IF appMode = "vases"
       THEN FocusVase(activeVaseIndex + dir)
       ELSE UNCHANGED camVars
  /\ UNCHANGED <<appVars, restVars>>

\* ArrowLeft / ArrowRight: the keydown listener exists in vases mode; while
\* locked the capture-phase listener stops the event before it gets there.
KeyArrow(dir) ==
  /\ lastOp' = Op("navigate", None)
  /\ IF appMode = "vases" /\ ~isLocked
       THEN FocusVase(activeVaseIndex + dir)
       ELSE UNCHANGED camVars
  /\ UNCHANGED <<appVars, restVars>>

\* Pointer down on a vase that is not the active one; the lock overlay covers
\* the canvas while locked.
VasePointerDownOther(i) ==
  /\ i # activeVaseIndex
  /\ lastOp' = Op("navigate", None)
  /\ IF shardsLoaded /\ ~isLocked
       THEN FocusVase(i)
       ELSE UNCHANGED camVars
  /\ UNCHANGED <<appVars, restVars>>

\* Pointer down on the active vase: handleVasePointerDown.
VasePointerDown ==
  /\ lastOp' = Op("gesture", None)
  /\ IF shardsLoaded /\ ~isLocked
        /\ ~(isResetting \/ isLocked \/ appMode # "vases")
       THEN /\ draggingMode' = "vase"
            /\ UNCHANGED <<activeVaseIndex, isResetting, resetRef, sceneVars>>
       ELSE UNCHANGED camVars
  /\ UNCHANGED <<appVars, restVars>>

\* enabled flag the controls effect gives OrbitControls.
ControlsEnabled == ~isResetting /\ ~isLocked /\ draggingMode # "vase"

\* onStart with nothing gating OrbitControls.
OrbitStartAlways ==
  /\ lastOp' = Op("orbitStart", None)
  /\ draggingMode' = "camera"
  /\ UNCHANGED <<activeVaseIndex, isResetting, resetRef, sceneVars>>
  /\ UNCHANGED <<appVars, restVars>>

\* A drag begins on the canvas background: OrbitControls fires onStart if it
\* is enabled and the lock overlay is not in the way.
OrbitStart ==
  /\ lastOp' = Op("orbitStart", None)
  /\ IF ControlsEnabled /\ ~isLocked
       THEN /\ draggingMode' = "camera"
            /\ UNCHANGED <<activeVaseIndex, isResetting, resetRef, sceneVars>>
       ELSE UNCHANGED camVars
  /\ UNCHANGED <<appVars, restVars>>

\* The pointerup listener of the older App: a camera drag ends in a reset.
PointerUpStartsReset ==
  /\ lastOp' = Op("pointerUp", None)
  /\ IF isLocked \/ appMode # "vases"
       THEN UNCHANGED camVars
       ELSE IF draggingMode = "camera"
         THEN StartCameraReset
       ELSE /\ draggingMode' = "none"
            /\ UNCHANGED <<activeVaseIndex, isResetting, resetRef, sceneVars>>
  /\ UNCHANGED <<appVars, restVars>>

\* Global pointerup listener.
PointerUp ==
  /\ lastOp' = Op("pointerUp", None)
  /\ IF isLocked \/ appMode # "vases"
       THEN UNCHANGED camVars
       ELSE /\ draggingMode' = "none"
            /\ UNCHANGED <<activeVaseIndex, isResetting, resetRef, sceneVars>>
  /\ UNCHANGED <<appVars, restVars>>

CancelSources == {"pointercancel", "blur", "visibilitychange"}

\* A cancel() that also abandons the destroy in progress.
PointerCancelAbortsDestroy(src) ==
  /\ lastOp' = Op("gesture", None)
  /\ appMode = "vases"
  /\ draggingMode' = "none"
  /\ isLocked' = FALSE
  /\ destroyingIndex' = None
  /\ UNCHANGED <<activeVaseIndex, isResetting, resetRef, sceneVars,
                 destroyEventId, destroyingVasesRef, appVars, statVars,
                 modelVars, ghostVars, shardsLoaded, storeVars>>

\* pointercancel, window blur and visibility-hidden all call cancel().
PointerCancel(src) ==
  /\ lastOp' = Op("pointerCancel", None)
  /\ IF isLocked \/ appMode # "vases"
       THEN UNCHANGED camVars
       ELSE IF draggingMode = "camera"
         THEN StartCameraReset
       ELSE /\ draggingMode' = "none"
            /\ UNCHANGED <<activeVaseIndex, isResetting, resetRef, sceneVars>>
  /\ UNCHANGED <<appVars, restVars>>

\* handleResetCamera without its isLocked check.
PressResetCameraWhileLocked ==
  /\ lastOp' = Op("gesture", None)
  /\ IF appMode = "vases" /\ ~isResetting
       THEN StartCameraReset
       ELSE UNCHANGED camVars
  /\ UNCHANGED <<appVars, restVars>>

\* A click on the reset-camera button: handleResetCamera.
PressResetCamera ==
  /\ lastOp' = Op("gesture", None)
  /\ IF appMode = "vases" /\ ~isResetting /\ ~isLocked
       THEN StartCameraReset
       ELSE UNCHANGED camVars
  /\ UNCHANGED <<appVars, restVars>>

\* A click on the manifest button: handleTriggerManifest with its background
\* save and the manifest effect (spawnCoinForVase).
HandleTriggerManifest(queued) ==
  LET idx == activeVaseIndex
      accepted == NavRendered /\ ~NavDisabled(isLocked, isResetting)
                  /\ ~(appMode # "vases" \/ isLocked \/ isResetting)
  IN
  /\ vases[idx].coinAmount < MaxCoins /\ coinsByVase[idx] < MaxCoins
  /\ (accepted /\ queued) => Len(saves) < MaxSaves
  /\ lastOp' = Op("gesture", None)
  /\ IF accepted
       THEN /\ vases' = [vases EXCEPT ![idx].coinAmount = @ + 1]
            /\ coinsByVase' = IF ~isLocked THEN [coinsByVase EXCEPT ![idx] = @ + 1]
                              ELSE coinsByVase
            /\ SaveCounters(vases', queued)
       ELSE UNCHANGED <<statVars, persistVars>>
  /\ UNCHANGED <<appVars, camVars, lockVars, modelVars, ghostVars,
                 shardsLoaded, texVars>>

PressManifest == HandleTriggerManifest(FALSE)

\* The Connect button of the title screen.
PressConnect ==
  /\ appMode = "title" /\ ~isConnecting
  /\ lastOp' = Op("gesture", None)
  /\ isConnecting' = TRUE
  /\ connectTimer' = TRUE
  /\ UNCHANGED <<appMode, onResetDoneOnceRef, camVars, restVars>>

\* The connect delay elapses: startTitleToVasesTransition.
ConnectTimerFires ==
  /\ connectTimer
  /\ lastOp' = Op("other", None)
  /\ connectTimer' = FALSE
  /\ onResetDoneOnceRef' = TRUE
  /\ LET newTarget == GetVaseTarget(activeVaseIndex)
     IN resetRef' = Task("title", cameraPosition, newTarget + DefaultOffsetMilli,
                         controlsTarget, newTarget)
  /\ isResetting' = TRUE
  /\ UNCHANGED <<appMode, isConnecting, activeVaseIndex, draggingMode,
                 sceneVars, restVars>>

MinProgressPct(kind) ==
  IF kind = "focus" THEN FocusMinProgressPct ELSE ResetMinProgressPct

\* easeOutCubic(t) for t = min(elapsed / duration, 1), in thousandths.
EaseMilli(elapsed, duration) ==
  LET r == ((duration - Min(elapsed, duration)) * 1000) \div duration
  IN 1000 - ((r * r * r) \div 1000000)

\* lerpVectors(a, b, k) for k in thousandths, before rounding.
Lerp(a, b, k) == a + (((b - a) * k) \div 1000)

\* Rounding errors a floating-point lerp can leave: a + (b - a) * k is exact
\* when a = b and need not be b at k = 1 otherwise.
RoundErrs(a, b) == IF a = b THEN {0} ELSE 0 .. MaxRoundErr

\* distanceToSquared(to) <= epsSq, for the square root eps of epsSq.
WithinEps(p, to, eps) == Abs(p - to) <= eps

\* The completion condition that ignores the tolerances.
CameraTaskDoneAtEndOnly(task, elapsed, pos, target) ==
  elapsed >= Duration(task.kind)

\* The completion condition of the frame that brings elapsed to the given
\* value and has interpolated the camera to pos and the target to target.
CameraTaskDone(task, elapsed, pos, target) ==
  \/ elapsed >= Duration(task.kind)
  \/ /\ elapsed * 100 >= MinProgressPct(task.kind) * Duration(task.kind)
     /\ WithinEps(pos, task.toPos, PosEpsMilli)
     /\ WithinEps(target, task.toTarget, TargetEpsMilli)

\* The completion branch that leaves the camera where the lerp put it.
SnapSkipped(sc, task) == sc

\* The statements of the completion branch, applied to the scene
\* [position, target, updated, cell].
Snap(sc, task) ==
  [sc EXCEPT !.position = task.toPos, !.target = task.toTarget,
             !.updated = FALSE]

ControlsUpdate(sc) == [sc EXCEPT !.updated = TRUE]

\* A completion branch that leaves the task in resetRef.
ClearCellSkipped(sc) == sc

\* resetRef.current = null
ClearCell(sc) == [sc EXCEPT !.cell = "none"]

\* The scene once the completion branch has run.
FinalScene(sc, task) == ClearCell(ControlsUpdate(Snap(sc, task)))

\* An onDone that is called as the first statement of the branch.
SceneAtOnDoneFirst(sc, task) == sc

\* The scene onDone is called in: it is the last statement of the branch.
SceneAtOnDone(sc, task) == FinalScene(sc, task)

\* What onDone has to find.
SawFinal(sc, task) ==
  /\ sc.position = task.toPos
  /\ sc.target = task.toTarget
  /\ sc.updated
  /\ sc.cell = "none"

\* useFrame of CameraResetAnimator for a frame of the given delta, with
\* onDone when the task completes.
CameraTick(delta) ==
  /\ resetRef.kind # "none"
  /\ \E ep \in RoundErrs(resetRef.fromPos, resetRef.toPos),
        et \in RoundErrs(resetRef.fromTarget, resetRef.toTarget) :
       LET elapsed == resetRef.elapsed + delta
           k == EaseMilli(elapsed, Duration(resetRef.kind))
           pos == Lerp(resetRef.fromPos, resetRef.toPos, k) + ep
           target == Lerp(resetRef.fromTarget, resetRef.toTarget, k) + et
           sc == [position |-> pos, target |-> target, updated |-> TRUE,
                  cell |-> resetRef.kind]
           fin == FinalScene(sc, resetRef)
       IN IF CameraTaskDone(resetRef, elapsed, pos, target)
            THEN /\ lastOp' = Op("cameraDone", elapsed)
                 /\ cameraPosition' = fin.position
                 /\ controlsTarget' = fin.target
                 /\ resetRef' = IF fin.cell = "none" THEN NoTask
                                ELSE [resetRef EXCEPT !.elapsed = elapsed]
                 /\ onDoneSawFinal' = SawFinal(SceneAtOnDone(sc, resetRef), resetRef)
                 /\ isResetting' = FALSE
                 /\ draggingMode' = "none"
                 /\ onResetDoneOnceRef' = FALSE
                 /\ appMode' = IF onResetDoneOnceRef THEN "vases" ELSE appMode
                 /\ isConnecting' = IF onResetDoneOnceRef THEN FALSE ELSE isConnecting
            ELSE /\ lastOp' = Op("cameraTick", elapsed)
                 /\ cameraPosition' = pos
                 /\ controlsTarget' = target
                 /\ resetRef' = [resetRef EXCEPT !.elapsed = elapsed]
                 /\ UNCHANGED <<onDoneSawFinal, isResetting, draggingMode,
                                onResetDoneOnceRef, appMode, isConnecting>>
  /\ UNCHANGED <<connectTimer, activeVaseIndex, restVars>>

\* A rendered frame.
CameraFrame == CameraTick(CamFrameCs)

Dirs == {-1, 1}

Next ==
  \/ PressConnect
  \/ ConnectTimerFires
  \/ AssetsLoad
  \/ PressDestroy
  \/ \E t \in timers : ShatterTimeoutFires(t)
  \/ Rerender
  \/ \E i \in Vases : ShardFrame(i)
  \/ CameraFrame
  \/ \E d \in Dirs : PressNav(d)
  \/ \E d \in Dirs : KeyArrow(d)
  \/ \E i \in Vases : VasePointerDownOther(i)
  \/ VasePointerDown
  \/ OrbitStart
  \/ PointerUp
  \/ \E src \in CancelSources : PointerCancel(src)
  \/ PressResetCamera
  \/ PressManifest

Spec == Init /\ [][Next]_vars

\* Timers that are scheduled fire: a pending completion timeout is not
\* postponed for ever.
FairSpec == Spec /\ WF_vars(\E t \in timers : ShatterTimeoutFires(t))

\* focusVase(index) called with the lock held: the function has no isLocked
\* guard of its own, its callers and the disabled buttons provide it.
CallFocusVase(index) ==
  /\ appMode = "vases" /\ isLocked
  /\ lastOp' = Op("other", None)
  /\ FocusVase(index)
  /\ UNCHANGED <<appVars, restVars>>

\* A destroy click whose effect body is invoked twice against one render
\* snapshot (the duplicate trigger destroyingVasesRef guards against).
DestroyEffectTwice ==
  Destroy(2, NavRendered /\ ~DestroyDisabled(isLocked, isResetting))

\* The handlers exercised without the gating their callers give them.
NextDirect ==
  \/ Next
  \/ \E i \in Vases : CallFocusVase(i)
  \/ DestroyEffectTwice

SpecDirect == Init /\ [][NextDirect]_vars

\* The onShatterComplete prop that the current render hands to vase i is
\* invoked without a completion timer of that vase having fired; the render
\* and the VaseModel effects it causes follow.
CallOnShatterComplete(i) ==
  LET applies == CompletionApplies(i, destroyingIndex)
  IN
  /\ shardsLoaded
  /\ lastOp' = Op("onShatterComplete", i)
  /\ destroyingIndex' = IF applies THEN None ELSE destroyingIndex
  /\ isLocked' = IF applies THEN FALSE ELSE isLocked
  /\ coinsByVase' = IF applies THEN [coinsByVase EXCEPT ![i] = 0] ELSE coinsByVase
  /\ destroyingVasesRef' =
       IF applies THEN destroyingVasesRef \ {i} ELSE destroyingVasesRef
  /\ completions' = IF applies THEN [completions EXCEPT ![i] = @ + 1] ELSE completions
  /\ VaseEffects(destroyingIndex', destroyEventId, shardsLoaded, NoJits,
                 timers, shardsActiveRef)
  /\ UNCHANGED <<destroyEventId, vases, appVars, camVars, shardsLoaded,
                 freshStarts, runStartCount, runRetriggers, storeVars>>

\* The program driven through its buttons, with completion callbacks that
\* may also arrive late or out of turn.
NextCallback ==
  \/ PressConnect
  \/ ConnectTimerFires
  \/ AssetsLoad
  \/ PressDestroy
  \/ \E t \in timers : ShatterTimeoutFires(t)
  \/ Rerender
  \/ \E i \in Vases : ShardFrame(i)
  \/ CameraFrame
  \/ \E d \in Dirs : PressNav(d)
  \/ PressManifest
  \/ \E i \in Vases : CallOnShatterComplete(i)

SpecCallback == Init /\ [][NextCallback]_vars

\* The camera animator on its own: a task has just been created by one of
\* focusVase, startCameraReset and startTitleToVasesTransition, from a camera
\* the user has orbited, panned or zoomed to some place, and frames of
\* different lengths follow.
AnimCoords == {0, NearMilli, FarMilli}

TickDeltas == {SmallTickCs, CamFrameCs}

InitAnimator ==
  /\ \E kind \in {"focus", "reset", "title"}, c \in AnimCoords,
        t \in AnimCoords, v \in Vases :
       LET base == IF kind = "title" THEN TitleTargetMilli ELSE 0
           pos == base + DefaultOffsetMilli + c
           target == base + t
           newTarget == GetVaseTarget(v)
       IN /\ cameraPosition = pos
          /\ controlsTarget = target
          /\ kind = "focus" => v # 0
          /\ kind # "focus" => v = 0
          /\ activeVaseIndex = v
          /\ resetRef =
               IF kind = "focus"
                 THEN Task(kind, pos, newTarget + (pos - target), target, newTarget)
               ELSE IF kind = "reset"
                 THEN Task(kind, pos, newTarget + Abs(pos - target), target, newTarget)
               ELSE Task(kind, pos, newTarget + DefaultOffsetMilli, target, newTarget)
          /\ appMode = IF kind = "title" THEN "title" ELSE "vases"
          /\ isConnecting = (kind = "title")
          /\ onResetDoneOnceRef = (kind = "title")
          /\ draggingMode \in IF kind = "focus" THEN {"none"} ELSE {"none", "camera"}
  /\ connectTimer = FALSE
  /\ isResetting = TRUE
  /\ onDoneSawFinal = TRUE
  /\ InitVases

NextAnimator == \E delta \in TickDeltas : CameraTick(delta)

SpecAnimator == InitAnimator /\ [][NextAnimator]_vars

\* The animator with a reset task that an arrow key may supersede at any
\* point of its run: focusVase is called while the reset is in flight.
KeyArrowDuringReset(dir) == resetRef.kind = "reset" /\ KeyArrow(dir)

NextSupersede ==
  \/ \E delta \in TickDeltas : CameraTick(delta)
  \/ \E d \in Dirs : KeyArrowDuringReset(d)

SpecSupersede == InitAnimator /\ [][NextSupersede]_vars

\* ------------------------------------------------------------ texture store
\* Key of the background image in textureStore.
SkyboxKey == <<"skybox:background", 0>>

\* getFixedVaseSlotId: the key tex:vase-(n + 1) of vase n.
GetFixedVaseSlotId(n) == <<"tex:vase", n + 1>>

\* The set of ids the one-time cleanup keeps.
AllowedTextureIds == {GetFixedVaseSlotId(i) : i \in Vases}

\* cleanupTexturesExcept, first half: the keys read from the store that are
\* not allowed.
CleanupToRemove(keys, allowed) == {k \in keys : k \notin allowed}

\* The sidebar hands a picked background image to onSkyboxSelected.
SkyboxSelected ==
  /\ appMode = "vases"
  /\ lastOp' = Op("skyboxSelected", None)
  /\ textureKeys' = textureKeys \cup {SkyboxKey}
  /\ skyboxUrl' = TRUE
  /\ UNCHANGED <<didCleanupTexturesRef, cleanupTimer, cleanupRun, persistVars>>
  /\ UNCHANGED <<appVars, camVars, lockVars, statVars, modelVars, ghostVars,
                 shardsLoaded>>

\* onClearSkybox.
ClearSkybox ==
  /\ appMode = "vases"
  /\ lastOp' = Op("clearSkybox", None)
  /\ textureKeys' = textureKeys \ {SkyboxKey}
  /\ skyboxUrl' = FALSE
  /\ UNCHANGED <<didCleanupTexturesRef, cleanupTimer, cleanupRun, persistVars>>
  /\ UNCHANGED <<appVars, camVars, lockVars, statVars, modelVars, ghostVars,
                 shardsLoaded>>

\* The appearance persistence effect saves the active layer of the active
\* vase into its fixed slot and sets vases; the cleanup effect, which depends
\* on vases, clears its timeout and arms a new one unless the cleanup is done.
SaveVaseTexture ==
  /\ appMode = "vases"
  /\ lastOp' = Op("saveTexture", activeVaseIndex)
  /\ textureKeys' = textureKeys \cup {GetFixedVaseSlotId(activeVaseIndex)}
  /\ cleanupTimer' = ~didCleanupTexturesRef
  /\ UNCHANGED <<skyboxUrl, didCleanupTexturesRef, cleanupRun, persistVars>>
  /\ UNCHANGED <<appVars, camVars, lockVars, statVars, modelVars, ghostVars,
                 shardsLoaded>>

\* The timeout of the cleanup effect fires: cleanupTexturesExcept reads the
\* keys of the store.
CleanupTimerFires ==
  /\ cleanupTimer /\ cleanupRun = <<>>
  /\ lastOp' = Op("cleanupKeys", None)
  /\ cleanupTimer' = FALSE
  /\ cleanupRun' = <<CleanupToRemove(textureKeys, AllowedTextureIds)>>
  /\ UNCHANGED <<textureKeys, skyboxUrl, didCleanupTexturesRef, persistVars>>
  /\ UNCHANGED <<appVars, camVars, lockVars, statVars, modelVars, ghostVars,
                 shardsLoaded>>

\* cleanupTexturesExcept, second half: the removals settle and the effect
\* marks the cleanup as done.
CleanupRemoves ==
  /\ cleanupRun # <<>>
  /\ lastOp' = Op("cleanupRemoves", None)
  /\ textureKeys' = textureKeys \ cleanupRun[1]
  /\ didCleanupTexturesRef' = TRUE
  /\ cleanupRun' = <<>>
  /\ UNCHANGED <<skyboxUrl, cleanupTimer, persistVars>>
  /\ UNCHANGED <<appVars, camVars, lockVars, statVars, modelVars, ghostVars,
                 shardsLoaded>>

\* The page is loaded again: every state and ref starts over, the stores
\* keep their items and the load effect reads the saved background image.
\* keys: the texture store the new page finds.
StartOver(keys) ==
  /\ appMode' = "title"
  /\ isConnecting' = FALSE
  /\ connectTimer' = FALSE
  /\ onResetDoneOnceRef' = FALSE
  /\ activeVaseIndex' = 0
  /\ isResetting' = FALSE
  /\ draggingMode' = "none"
  /\ resetRef' = NoTask
  /\ cameraPosition' = TitleCameraMilli
  /\ controlsTarget' = TitleTargetMilli
  /\ onDoneSawFinal' = TRUE
  /\ textureKeys' = keys
  /\ skyboxUrl' = (SkyboxKey \in keys)
  /\ didCleanupTexturesRef' = FALSE
  /\ cleanupTimer' = TRUE
  /\ cleanupRun' = <<>>
  /\ UNCHANGED <<lockVars, statVars, modelVars, ghostVars, shardsLoaded,
                 persistVars>>

\* The user closes and reopens the app.
AppRestart ==
  /\ lastOp' = Op("appStart", None)
  /\ StartOver(textureKeys)

\* handleResetAllData: the database of both stores is dropped and the page
\* reloads.
ResetAllData ==
  /\ lastOp' = Op("resetAllData", None)
  /\ StartOver({})

\* The app as far as the texture store goes: the way into vases mode, the
\* background image, the texture slots, the cleanup and restarts. No vase is
\* destroyed, so a restart finds locks, counters and shards as they were.
NextTextures ==
  \/ PressConnect
  \/ ConnectTimerFires
  \/ CameraFrame
  \/ SkyboxSelected
  \/ ClearSkybox
  \/ SaveVaseTexture
  \/ CleanupTimerFires
  \/ CleanupRemoves
  \/ AppRestart
  \/ ResetAllData

SpecTextures == Init /\ [][NextTextures]_vars

\* --------------------------------------------------------------- vase store
\* The vase name is clicked and a name entered: updateVaseAt is called with
\* the vases array of this render, and setVases(updated) follows the save.
RenameVase ==
  /\ appMode = "vases" /\ ~isLocked /\ ~isResetting
  /\ Len(saves) < MaxSaves
  /\ lastOp' = Op("rename", activeVaseIndex)
  /\ saves' = Append(saves, [snap |-> vases, writeBack |-> TRUE])
  /\ UNCHANGED <<vaseStore, texVars>>
  /\ UNCHANGED <<appVars, camVars, lockVars, statVars, modelVars, ghostVars,
                 shardsLoaded>>

\* The oldest saveVases call settles: the store holds its array, and the
\* caller that awaited it sets vases to that array.
SaveSettles ==
  /\ saves # <<>>
  /\ lastOp' = Op("saveSettled", None)
  /\ vaseStore' = Head(saves).snap
  /\ vases' = IF Head(saves).writeBack THEN Head(saves).snap ELSE vases
  /\ saves' = Tail(saves)
  /\ UNCHANGED <<coinsByVase, texVars>>
  /\ UNCHANGED <<appVars, camVars, lockVars, modelVars, ghostVars, shardsLoaded>>

PressDestroyQueued ==
  HandleTriggerDestroy(1, NavRendered /\ ~DestroyDisabled(isLocked, isResetting),
                       TRUE)

PressManifestQueued == HandleTriggerManifest(TRUE)

\* The app as far as the vase store goes: the counters, the renaming of a
\* vase and the saves in flight.
NextPersist ==
  \/ PressConnect
  \/ ConnectTimerFires
  \/ CameraFrame
  \/ AssetsLoad
  \/ PressDestroyQueued
  \/ \E t \in timers : ShatterTimeoutFires(t)
  \/ PressManifestQueued
  \/ RenameVase
  \/ SaveSettles

SpecPersist == Init /\ [][NextPersist]_vars

\* ---------------------------------------------------------------- properties
\* A completion timer of vase i is pending.
TimerPending(i) == \E t \in timers : t.vase = i

\* Vase i runs the shatter sequence of the current trigger id: its shards are
\* active and the completion timer of that trigger is pending.
SequenceRunning(i) ==
  /\ shardsActiveRef[i]
  /\ lastProcessedTriggerRef[i] = destroyEventId
  /\ [vase |-> i, trigger |-> destroyEventId, seen |-> i] \in timers

DestroyClicks == {"destroy", "destroyTwice", "destroyRejected"}

\* C1: a destroy triggered on the active vase while nothing is destroying and
\* no camera transition runs sets isLocked, makes that vase the
\* destroyingIndex and starts a shatter sequence for it; when the completion
\* timer of a run without re-triggers fires, isLocked is false,
\* destroyingIndex is none and the vase's destroyCount is one more than
\* before the run.
C1_FreshDestroyLifecycle ==
  [][/\ (lastOp'.op = "destroy" /\ destroyingIndex = None) =>
          /\ isLocked'
          /\ destroyingIndex' = activeVaseIndex
          /\ SequenceRunning(activeVaseIndex)'
     /\ (lastOp'.op = "shatterTimeout" /\ destroyingIndex # None) =>
          /\ ~isLocked'
          /\ destroyingIndex' = None
          /\ runRetriggers[destroyingIndex] = 0 =>
               vases'[destroyingIndex].destroyCount
                 = runStartCount[destroyingIndex] + 1]_vars

\* C2: a destroy triggered again on the vase whose sequence is running
\* restarts it (trigger id + 1 and processed, shards at their rest poses,
\* elapsed 0, fresh impulses, the vase's only pending timer is the new one);
\* from the first trigger until the completion isLocked stays true; each run
\* has at most one completion, and with timers firing it gets one.
C2_RetriggerSameTarget ==
  /\ [][(lastOp'.op = "destroy" /\ destroyingIndex # None
           /\ SequenceRunning(destroyingIndex)) =>
          LET i == destroyingIndex IN
          /\ destroyEventId' = destroyEventId + 1
          /\ lastProcessedTriggerRef'[i] = destroyEventId'
          /\ shardPos'[i] = [f \in Shards |-> RestPose(f)]
          /\ shardsElapsedRef'[i] = 0
          /\ shardsActiveRef'[i]
          /\ \E j \in [Shards -> Jitters] :
               shardsVelRef'[i] = [f \in Shards |-> Impulse(f, j[f])]
          /\ {t \in timers' : t.vase = i}
               = {[vase |-> i, trigger |-> destroyEventId', seen |-> i]}
          /\ isLocked' /\ destroyingIndex' = i]_vars
  /\ [][(destroyingIndex # None /\ lastOp'.op # "shatterTimeout") =>
          (isLocked /\ isLocked' /\ destroyingIndex' = destroyingIndex)]_vars
  /\ [](\A i \in Vases :
          completions[i] + (IF destroyingIndex = i THEN 1 ELSE 0)
            = freshStarts[i])
  /\ \A i \in Vases :
       (destroyingIndex = i /\ SequenceRunning(i))
         ~> (destroyingIndex = None /\ lastOp = Op("shatterTimeout", i))

C2_Witness ==
  \E i \in Vases :
    /\ lastOp = Op("destroy", i)
    /\ runRetriggers[i] >= 1
    /\ SequenceRunning(i)
    /\ shardsElapsedRef[i] = 0

\* C3: while one vase is destroying, a destroy click aimed at another vase
\* changes none of isLocked, destroyingIndex, destroyEventId, the in-flight
\* set, the pending timers, any vase's shard state, the coins and the
\* counters.
C3_RejectOtherTarget ==
  [][(lastOp'.op \in DestroyClicks /\ destroyingIndex # None
        /\ activeVaseIndex # destroyingIndex) =>
       UNCHANGED <<isLocked, destroyingIndex, destroyEventId,
                   destroyingVasesRef, modelVars, coinsByVase, vases>>]_vars

C3_Witness ==
  /\ lastOp = Op("destroyRejected", activeVaseIndex)
  /\ destroyingIndex # None
  /\ activeVaseIndex # destroyingIndex
  /\ ~isResetting
  /\ TimerPending(destroyingIndex)

\* C4: isLocked is true exactly when destroyingIndex is not none.
C4_LockIffTarget == isLocked <=> (destroyingIndex # None)

C4_Witness ==
  /\ isLocked
  /\ destroyingIndex # None
  /\ \E i \in Vases : completions[i] > 0

\* C5: no state has isLocked true while no completion timer is pending for
\* the destroying vase.
C5_LockedHasTimer ==
  isLocked => (destroyingIndex # None /\ TimerPending(destroyingIndex))

\* C6: a vase's destroyCount changes only in the step in which that vase's
\* completion fires, and then by exactly +1.
C6_CountAtCompletionOnly ==
  [][\A i \in Vases :
       vases'[i].destroyCount # vases[i].destroyCount =>
         /\ lastOp' = Op("shatterTimeout", i)
         /\ vases'[i].destroyCount = vases[i].destroyCount + 1]_vars

\* C7: at most one completion timer is pending per vase, and a pending timer
\* belongs to the last trigger id its vase processed: the timer of a
\* replaced sequence is gone and cannot fire.
C7_OneTimerPerVase ==
  \A t \in timers :
    /\ t.trigger = lastProcessedTriggerRef[t.vase]
    /\ t.trigger = shatterTimeoutRef[t.vase]
    /\ \A u \in timers : u.vase = t.vase => u = t

C7_Witness ==
  \E t \in timers :
    /\ lastOp = Op("destroy", t.vase)
    /\ runRetriggers[t.vase] >= 1
    /\ t.trigger = destroyEventId
    /\ t.trigger >= 2

\* C8: re-invoking the shatter init effect with the trigger id it already
\* processed changes no shard position or velocity, does not reset the
\* elapsed time and leaves the pending completion timer as it is.
C8_IdempotentStart ==
  [][lastOp'.op = "rerender" => UNCHANGED modelVars]_vars

C8_Witness ==
  /\ lastOp.op = "rerender"
  /\ destroyingIndex # None
  /\ SequenceRunning(destroyingIndex)
  /\ shardsElapsedRef[destroyingIndex] > 0

\* C9: the in-flight set holds exactly the vase being destroyed; a vase
\* enters it only by an accepted fresh destroy of that vase and leaves it
\* only by its own completion; a second run of the fresh-destroy logic for a
\* vase already in the set adds no second trigger id and no second sequence.
C9_InFlightSet ==
  /\ [](destroyingVasesRef
          = IF destroyingIndex = None THEN {} ELSE {destroyingIndex})
  /\ [][\A i \in Vases :
          /\ (i \notin destroyingVasesRef /\ i \in destroyingVasesRef') =>
               /\ lastOp'.op \in {"destroy", "destroyTwice"}
               /\ lastOp'.arg = i
               /\ destroyingIndex = None
          /\ (i \in destroyingVasesRef /\ i \notin destroyingVasesRef') =>
               lastOp' = Op("shatterTimeout", i)]_vars
  /\ [][(lastOp'.op = "destroyTwice" /\ destroyingIndex = None) =>
          /\ destroyEventId' = destroyEventId + 1
          /\ isLocked' /\ destroyingIndex' = activeVaseIndex
          /\ destroyingVasesRef' = {activeVaseIndex}
          /\ Cardinality(timers') <= 1]_vars

C9_Witness ==
  /\ lastOp = Op("destroyTwice", activeVaseIndex)
  /\ destroyingIndex = activeVaseIndex
  /\ destroyingVasesRef = {activeVaseIndex}
  /\ SequenceRunning(activeVaseIndex)

\* C10: once a vase is destroying, only the step of its shatter completion
\* changes isLocked or destroyingIndex, and no other step removes the
\* pending completion timer of the destroying vase.
C10_AtomicDestroy ==
  [][(destroyingIndex # None /\ lastOp' # Op("shatterTimeout", destroyingIndex)) =>
       /\ isLocked' = isLocked
       /\ destroyingIndex' = destroyingIndex
       /\ TimerPending(destroyingIndex) => TimerPending(destroyingIndex)']_vars

C10_Witness ==
  /\ lastOp.op = "gesture"
  /\ isLocked
  /\ destroyingIndex # None
  /\ TimerPending(destroyingIndex)

\* C11: in every reachable state at most one of vase drag (draggingMode =
\* "vase"), camera drag (draggingMode = "camera") and camera reset
\* (isResetting) is active.
C11_OneExclusiveMode ==
  Cardinality({m \in {"vase", "camera", "reset"} :
                 \/ (m = "vase" /\ draggingMode = "vase")
                 \/ (m = "camera" /\ draggingMode = "camera")
                 \/ (m = "reset" /\ isResetting)}) <= 1

\* C12: an attempt to begin a camera drag while isLocked is true leaves
\* draggingMode as it was.
C12_NoCameraDragWhileLocked ==
  [][(lastOp'.op = "orbitStart" /\ isLocked) =>
       draggingMode' = draggingMode]_vars

C12_Witness ==
  /\ lastOp.op = "orbitStart"
  /\ isLocked
  /\ draggingMode # "camera"

\* Steps taken by a user gesture other than a destroy click.
UserGestures ==
  {"gesture", "navigate", "orbitStart", "pointerUp", "pointerCancel"}

\* C13: destroy and camera transitions exclude each other: while a destroy is
\* in progress no gesture starts a camera reset or focus transition, a
\* destroy click made while a camera transition is in flight changes nothing,
\* and isLocked and isResetting are never both true.
C13_DestroyExcludesCamera ==
  /\ [](~(isLocked /\ isResetting))
  /\ [][(isLocked /\ lastOp'.op \in UserGestures) =>
          UNCHANGED <<resetRef, isResetting, activeVaseIndex>>]_vars
  /\ [][(isResetting /\ lastOp'.op \in DestroyClicks) =>
          /\ lastOp'.op = "destroyRejected"
          /\ UNCHANGED <<lockVars, statVars, modelVars>>]_vars

C13_Witness ==
  /\ lastOp.op = "destroyRejected"
  /\ isResetting
  /\ appMode = "vases"
  /\ resetRef.kind \in {"focus", "reset"}

\* C14: while isLocked is true activeVaseIndex never changes: presses of the
\* previous / next buttons, arrow keys and pointer-down on a vase that is not
\* the active one leave the active vase as it is.
C14_NoNavigationWhileLocked ==
  [][isLocked => activeVaseIndex' = activeVaseIndex]_vars

C14_Witness ==
  /\ lastOp.op = "navigate"
  /\ isLocked
  /\ activeVaseIndex = destroyingIndex

\* C15: whenever draggingMode is "vase", a pointer up, a pointer cancel, a
\* window blur and a visibility-hidden event each return draggingMode to
\* none, in every reachable state in which the event occurs.
C15_VaseDragReleased ==
  [][(draggingMode = "vase" /\ lastOp'.op \in {"pointerUp", "pointerCancel"}) =>
       draggingMode' = "none"]_vars

\* The step completes the camera task that was in the cell.
CameraCompletes == resetRef.kind # "none" /\ resetRef'.kind = "none"

\* C16 as stated: when a camera drag ends by pointer up, pointer cancel, blur
\* or visibility-hidden a camera reset task is started, and draggingMode
\* goes from "camera" to none only in the step that completes a camera task.
C16_CameraDragEndsByReset ==
  /\ [][(draggingMode = "camera"
           /\ lastOp'.op \in {"pointerUp", "pointerCancel"}) =>
          /\ resetRef'.kind = "reset" /\ resetRef'.elapsed = 0
          /\ isResetting'
          /\ draggingMode' = "camera"]_vars
  /\ [][(draggingMode = "camera" /\ draggingMode' = "none") =>
          CameraCompletes]_vars

\* C16: with the lock free in vases mode, a camera drag ended by pointer up
\* goes straight to none and starts no camera task; ended by pointer cancel,
\* blur or visibility-hidden it starts a reset task and stays "camera" while
\* that task runs; with the lock held or on the title screen these events
\* leave the camera state alone. draggingMode goes from "camera" to none
\* only by a pointer up, by the completion of a camera task or by a focus
\* transition that starts.
C16_CameraDragRelease ==
  /\ [][(draggingMode = "camera" /\ lastOp'.op = "pointerUp") =>
          IF isLocked \/ appMode # "vases"
            THEN UNCHANGED camVars
            ELSE /\ draggingMode' = "none"
                 /\ UNCHANGED <<resetRef, isResetting, activeVaseIndex>>]_vars
  /\ [][(draggingMode = "camera" /\ lastOp'.op = "pointerCancel") =>
          IF isLocked \/ appMode # "vases"
            THEN UNCHANGED camVars
            ELSE /\ resetRef'.kind = "reset" /\ resetRef'.elapsed = 0
                 /\ isResetting'
                 /\ draggingMode' = "camera"]_vars
  /\ [][(draggingMode = "camera" /\ draggingMode' = "none") =>
          \/ lastOp'.op = "pointerUp"
          \/ CameraCompletes
          \/ (lastOp'.op = "navigate" /\ resetRef'.kind = "focus"
                                      /\ resetRef'.elapsed = 0)]_vars

C16_Witness ==
  /\ lastOp.op = "pointerCancel"
  /\ appMode = "vases"
  /\ ~isLocked
  /\ draggingMode = "camera"
  /\ isResetting
  /\ resetRef.kind = "reset"
  /\ resetRef.elapsed = 0

CameraOps == {"cameraDone", "cameraTick"}

\* C17: for a camera task of duration D, a task still in the cell has
\* accumulated less than D, and the frame that brings the accumulated time
\* to D or more completes the task: the cell is none, onDone has run, the
\* camera position is exactly toPos and the controls target exactly
\* toTarget, whatever the frame deltas were.
C17_CameraConvergence ==
  /\ [](resetRef.kind # "none" => resetRef.elapsed < Duration(resetRef.kind))
  /\ [][(lastOp'.op \in CameraOps /\ lastOp'.arg >= Duration(resetRef.kind)) =>
          /\ lastOp'.op = "cameraDone"
          /\ resetRef' = NoTask
          /\ ~isResetting'
          /\ cameraPosition' = resetRef.toPos
          /\ controlsTarget' = resetRef.toTarget]_vars

C17_Witness ==
  /\ lastOp.op = "cameraDone"
  /\ lastOp.arg > TitleDurationCs
  /\ resetRef = NoTask
  /\ appMode = "vases"
  /\ cameraPosition = GetVaseTarget(activeVaseIndex) + DefaultOffsetMilli
  /\ controlsTarget = GetVaseTarget(activeVaseIndex)

\* t >= minProgressForEarlyEnd on the frame that brings elapsed to e.
MinProgressReached(task, e) ==
  e * 100 >= MinProgressPct(task.kind) * Duration(task.kind)

\* The frame that brings elapsed to e can interpolate the camera and the
\* target to within their tolerances of the destinations.
InterpolatedWithin(task, e) ==
  LET k == EaseMilli(e, Duration(task.kind))
  IN /\ \E ep \in RoundErrs(task.fromPos, task.toPos) :
          WithinEps(Lerp(task.fromPos, task.toPos, k) + ep, task.toPos,
                    PosEpsMilli)
     /\ \E et \in RoundErrs(task.fromTarget, task.toTarget) :
          WithinEps(Lerp(task.fromTarget, task.toTarget, k) + et,
                    task.toTarget, TargetEpsMilli)

\* The eased curve of the task is within both tolerances at
\* t = minProgressForEarlyEnd.
MetAtMinProgress(task) ==
  LET r == 1000 - (10 * MinProgressPct(task.kind))
      k == 1000 - ((r * r * r) \div 1000000)
  IN /\ WithinEps(Lerp(task.fromPos, task.toPos, k), task.toPos, PosEpsMilli)
     /\ WithinEps(Lerp(task.fromTarget, task.toTarget, k), task.toTarget,
                  TargetEpsMilli)

\* A frame of the animator with t < 1 completes the task exactly when t has
\* reached minProgressForEarlyEnd and both interpolated values are within
\* their tolerances.
EarlyExitIff ==
  [][(lastOp'.op \in CameraOps /\ lastOp'.arg < Duration(resetRef.kind)) =>
       /\ lastOp'.op = "cameraDone" =>
            /\ MinProgressReached(resetRef, lastOp'.arg)
            /\ InterpolatedWithin(resetRef, lastOp'.arg)
            /\ resetRef' = NoTask
            /\ cameraPosition' = resetRef.toPos
            /\ controlsTarget' = resetRef.toTarget
       /\ lastOp'.op = "cameraTick" =>
            ~(/\ MinProgressReached(resetRef, lastOp'.arg)
              /\ WithinEps(cameraPosition', resetRef.toPos, PosEpsMilli)
              /\ WithinEps(controlsTarget', resetRef.toTarget, TargetEpsMilli))]_vars

\* C18 as stated: the early exit happens exactly under its condition, and a
\* task whose tolerances are met at t = minProgressForEarlyEnd completes
\* with elapsed strictly below its duration.
C18_EarlyExitBeforeEnd ==
  /\ EarlyExitIff
  /\ [][(lastOp'.op = "cameraDone" /\ MetAtMinProgress(resetRef)) =>
          lastOp'.arg < Duration(resetRef.kind)]_vars

\* C18: the early exit happens exactly under its condition, never before
\* t reaches minProgressForEarlyEnd; a task whose tolerances are met at
\* t = minProgressForEarlyEnd completes on the first frame on which t has
\* reached minProgressForEarlyEnd, whether or not that frame comes before
\* elapsed reaches the duration.
C18_EarlyExitFirstFrame ==
  /\ EarlyExitIff
  /\ [][(lastOp'.op = "cameraDone") =>
          MinProgressReached(resetRef, lastOp'.arg)]_vars
  /\ [][(lastOp'.op = "cameraTick" /\ MetAtMinProgress(resetRef)) =>
          ~MinProgressReached(resetRef, lastOp'.arg)]_vars

C18_Witness ==
  /\ lastOp.op = "cameraDone"
  /\ lastOp.arg < FocusDurationCs
  /\ resetRef = NoTask
  /\ ~isResetting

\* C19: every camera task that is created gets its completion callback
\* exactly once: onDone runs only in a step that takes a task out of the
\* cell, and a task in the cell stays there, advanced by its frames only,
\* until the step in which onDone runs.
C19_OneCallbackPerTask ==
  /\ [][lastOp'.op = "cameraDone" =>
          (resetRef.kind # "none" /\ resetRef' = NoTask)]_vars
  /\ [][resetRef.kind # "none" =>
          \/ lastOp'.op = "cameraDone"
          \/ /\ lastOp'.op = "cameraTick"
             /\ resetRef' = [resetRef EXCEPT !.elapsed = lastOp'.arg]
          \/ resetRef' = resetRef]_vars

\* C20: when onDone is invoked the camera position already equals toPos,
\* the controls target already equals toTarget, the controls have been
\* updated after the snap and the task cell is already none; the step that
\* runs onDone leaves the camera at the destination with the cell empty.
C20_CallbackSeesFinalState ==
  /\ [](onDoneSawFinal)
  /\ [][lastOp'.op = "cameraDone" =>
          /\ cameraPosition' = resetRef.toPos
          /\ controlsTarget' = resetRef.toTarget
          /\ resetRef' = NoTask]_vars

C20_Witness ==
  /\ lastOp.op = "cameraDone"
  /\ onDoneSawFinal
  /\ activeVaseIndex # 0
  /\ cameraPosition - controlsTarget # DefaultOffsetMilli
  /\ controlsTarget = GetVaseTarget(activeVaseIndex)

\* The frame that brings elapsed to e can interpolate the camera of the task
\* to pos and its target to target.
InterpolatedTo(task, e, pos, target) ==
  LET k == EaseMilli(e, Duration(task.kind))
  IN /\ \E ep \in RoundErrs(task.fromPos, task.toPos) :
          pos = Lerp(task.fromPos, task.toPos, k) + ep
     /\ \E et \in RoundErrs(task.fromTarget, task.toTarget) :
          target = Lerp(task.fromTarget, task.toTarget, k) + et

\* C21: starting a camera transition while another is in flight replaces
\* it: the cell then holds the new task with elapsed 0, starting from where
\* the camera is; the camera moves only in the frames of the task that is
\* in the cell, along that task's endpoints, and a completion snaps it to
\* that task's destination, never to the destination of a discarded task.
C21_LastWriterWins ==
  /\ [][(resetRef.kind # "none" /\ lastOp'.op \notin CameraOps
           /\ resetRef' # resetRef) =>
          /\ resetRef'.kind # "none"
          /\ resetRef'.elapsed = 0
          /\ resetRef'.fromPos = cameraPosition
          /\ resetRef'.fromTarget = controlsTarget
          /\ UNCHANGED <<cameraPosition, controlsTarget>>]_vars
  /\ [][(cameraPosition' # cameraPosition \/ controlsTarget' # controlsTarget) =>
          /\ resetRef.kind # "none"
          /\ lastOp'.op \in CameraOps
          /\ lastOp'.arg > resetRef.elapsed]_vars
  /\ [][lastOp'.op = "cameraTick" =>
          InterpolatedTo(resetRef, lastOp'.arg, cameraPosition',
                         controlsTarget')]_vars
  /\ [][lastOp'.op = "cameraDone" =>
          /\ cameraPosition' = resetRef.toPos
          /\ controlsTarget' = resetRef.toTarget]_vars

C21_Witness ==
  /\ lastOp.op = "cameraDone"
  /\ activeVaseIndex # 0
  /\ draggingMode = "none"
  /\ lastOp.arg < ResetDurationCs
  /\ controlsTarget = GetVaseTarget(activeVaseIndex)
  /\ cameraPosition - controlsTarget \notin
       {DefaultOffsetMilli + c - t : c \in AnimCoords, t \in AnimCoords}

C23_MissingAssetsNoOp ==
  [][(~shardsLoaded /\ lastOp'.op \in {"destroy", "destroyRejected"}) =>
       /\ UNCHANGED <<shardsVelRef, shardsActiveRef, timers, shatterTimeoutRef,
                      lastProcessedTriggerRef>>
       /\ UNCHANGED <<isLocked, destroyingIndex, destroyingVasesRef>>]_vars

SequenceStarts(i) == lastProcessedTriggerRef'[i] # lastProcessedTriggerRef[i]

\* Distances from the blast centre, in hundredths, at which the boost is
\* sampled.
SampleDists == {d * 50 : d \in 0..(2 * NumShards)}

\* C25 as stated: of any two shards of a starting sequence the one farther
\* from the blast centre has the linear velocity of greater or equal
\* magnitude, and the distance boost lies between 1 and 1 + clamp.
C25_ImpulseMonotoneInDistance ==
  [][\A i \in Vases : SequenceStarts(i) =>
       /\ \A f, g \in Shards :
            DistPct(f) <= DistPct(g) =>
              Abs(shardsVelRef'[i][f]) <= Abs(shardsVelRef'[i][g])
       /\ \A f \in Shards :
            DistBoostPct(DistPct(f)) \in 100..(100 + EffClampPct)]_vars

\* C25 amended: every shard of a starting sequence gets the impulse of its
\* place and of one jitter draw; for one and the same jitter draw the
\* strength is non-decreasing in the distance from the blast centre; the
\* distance boost lies between 1 and 1 + clamp.
C25_StrengthMonotoneForOneDraw ==
  [][\A i \in Vases : SequenceStarts(i) =>
       /\ \A f \in Shards : \E j \in Jitters : shardsVelRef'[i][f] = Impulse(f, j)
       /\ \A f, g \in Shards, j \in Jitters :
            DistPct(f) <= DistPct(g) => Strength(f, j) <= Strength(g, j)
       /\ \A d1, d2 \in SampleDists :
            d1 <= d2 => DistBoostPct(d1) <= DistBoostPct(d2)
       /\ \A d \in SampleDists \cup {DistPct(f) : f \in Shards} :
            DistBoostPct(d) \in 100..(100 + EffClampPct)]_vars

\* A sequence has just started in which two shards equally far from the
\* blast centre, given the same jitter draw, move at different speeds.
C25_Witness ==
  \E i \in Vases, f, g \in Shards, j \in Jitters :
    /\ lastOp = Op("destroy", i)
    /\ SequenceRunning(i)
    /\ shardsElapsedRef[i] = 0
    /\ DistPct(f) = DistPct(g)
    /\ shardsVelRef[i][f] = Impulse(f, j)
    /\ shardsVelRef[i][g] = Impulse(g, j)
    /\ Abs(shardsVelRef[i][f]) > Abs(shardsVelRef[i][g])

\* C26: destroyEventId never decreases; a destroy whose effect takes the
\* fresh or the re-trigger branch raises it by exactly one, every other step
\* (a rejected trigger included) leaves it alone; so the id handed to a vase
\* that is to (re)start differs from the one the vase processed last, and the
\* vase starts the sequence of the new id.
C26_TriggerTokenMonotonic ==
  /\ [][LET idx == activeVaseIndex
            kind == DestroyEffectKind(destroyingIndex, idx, destroyingVasesRef)
        IN /\ destroyEventId' >= destroyEventId
           /\ (lastOp'.op = "destroy" /\ kind # "reject") =>
                /\ destroyEventId' = destroyEventId + 1
                /\ destroyEventId' # lastProcessedTriggerRef[idx]
                /\ shardsLoaded => lastProcessedTriggerRef'[idx] = destroyEventId'
           /\ (lastOp'.op # "destroy" \/ kind = "reject") =>
                destroyEventId' = destroyEventId]_vars
  /\ [](\A i \in Vases : lastProcessedTriggerRef[i] <= destroyEventId)

\* A same-vase re-trigger has just been accepted after a fresh destroy: the
\* id was raised twice and the vase runs the sequence of the latest id.
C26_Witness ==
  \E i \in Vases :
    /\ lastOp = Op("destroy", i)
    /\ runRetriggers[i] >= 1
    /\ destroyEventId = 2
    /\ lastProcessedTriggerRef[i] = destroyEventId
    /\ SequenceRunning(i)

\* C27: with distBias, distScale and distClamp not supplied, the boost of a
\* shard at distance d from the blast centre is 1 + min(d * 0.15, 0.5): the
\* bias counts as 0.
C27_DefaultBoostWithoutBias ==
  [][\A i \in Vases : SequenceStarts(i) =>
       \A f \in Shards :
         DistBoostPct(DistPct(f)) =
           100 + Min((DistPct(f) * EffScalePct) \div 100, EffClampPct)]_vars

\* C28: a background image stored under the skybox key stays in the texture
\* store until the user clears the background or resets all data, and a
\* start that finds it in the store shows it.
C28_SkyboxPersisted ==
  /\ [][(SkyboxKey \in textureKeys /\ SkyboxKey \notin textureKeys') =>
          lastOp'.op \in {"clearSkybox", "resetAllData"}]_vars
  /\ [][(lastOp'.op = "appStart" /\ SkyboxKey \in textureKeys) => skyboxUrl']_vars

\* C29: between resets the destroyCount and the coinAmount of a vase never
\* decrease, neither in the vases state nor in the vase store.
C29_CountersNeverDecrease ==
  [][\A i \in Vases :
       /\ vases'[i].destroyCount >= vases[i].destroyCount
       /\ vases'[i].coinAmount >= vases[i].coinAmount
       /\ vaseStore'[i].destroyCount >= vaseStore[i].destroyCount
       /\ vaseStore'[i].coinAmount >= vaseStore[i].coinAmount]_vars

\* C30: isResetting is true exactly while a camera task is installed: a step
\* that raises it installs a task, and it falls in the step that completes
\* the task then installed, so it is never true with no task to end it.
C30_ResettingIffTask ==
  /\ [](isResetting <=> resetRef.kind # "none")
  /\ [][(~isResetting /\ isResetting') =>
          /\ resetRef'.kind # "none" /\ resetRef'.elapsed = 0]_vars
  /\ [][(isResetting /\ ~isResetting') =>
          /\ lastOp'.op = "cameraDone" /\ resetRef'.kind = "none"]_vars

\* A focus task has completed: the camera rests on the vase navigated to,
\* no task is left and isResetting is down.
C30_Witness ==
  /\ lastOp.op = "cameraDone"
  /\ appMode = "vases"
  /\ activeVaseIndex # 0
  /\ ~isResetting
  /\ resetRef = NoTask
  /\ controlsTarget = GetVaseTarget(activeVaseIndex)

====
